---- MODULE Spec2Model ----
(***************************************************************************)
(* rpm-rebuild-helper: the streaming collection pipeline of rpmrh/cli.py   *)
(* (run_chain, CollectionSequence.consume and the diff, download and build *)
(* stages, each a Python generator), the service type registry of          *)
(* rpmrh/configuration/experimental/service.py, and the capability index   *)
(* the tests of tests/service/test_configuration.py exercise.              *)
(***************************************************************************)
EXTENDS Integers, Sequences, FiniteSets, TLC

VARIABLES
    chain,        \* processor_seq: the chained commands, in command-line order
    colls,        \* collection_seq: the collection names, de-duplicated (dict keys)
    pep479,       \* does the interpreter turn a StopIteration raised in a generator body
                  \* into RuntimeError: unknown until the run gets there
    aliases,      \* (kind, group) -> has an alias template, as far as the run has looked
    pc,           \* position of the run driver
    composed,     \* number of processors run_chain's reduce has applied
    idx,          \* number of items pulled from the initial CollectionSequence
    stageAt,      \* the stage whose generator body is running (item / end phase)
    item,         \* the item travelling down the chain of stage generators
    scl,          \* per stage: the loop variable scl of the stage's generator frame
    present,      \* per diff stage: the closure variable present
    src,          \* per diff stage: state of the latest_builds(params.source) generator
    sess,         \* per build stage: state of `with builder` for the current item
    failed,       \* per build stage: the defaultdict(set) of build failures
    ownedKeys,    \* the (kind, group, collection) keys find() has resolved so far
    pos,          \* package level: the layer control is at (0 = initial [], n+1 = consumer)
    mode,         \* package level: idle | down | up | stop
    val,          \* package level: the value travelling up
    acc,          \* consume: the list sorted() is collecting
    structure,    \* consume: collection -> sorted packages (for the single EL)
    report,       \* what to_yaml wrote to the report stream
    failDocs,     \* the failure documents yaml.dump wrote, in order
    error,        \* the exception that ended the run, or "none"
    trace,        \* what the stages did for the current item, in order
    regMap,       \* the registry: type name -> initializer
    regPending,   \* the decorators register() has returned
    regDesc,      \* the configuration_map the caller holds
    regOp,        \* the last call on the registry, and how it ended
    ixPairs,      \* the index: the (key, service) entries
    ixServices,   \* the service objects: id -> the key-set attribute it has, and the keys
    ixInserted,   \* the services whose insert returned
    ixFailed,     \* an insert has raised
    ixOp,         \* the last call on the index, and how it ended
    rcResult,     \* the report container: the (outer key, inner key, package) entries
    rcInserted    \* the packages insert_package was called with

pipeVars == <<chain, colls, pep479, aliases, pc, composed, idx, stageAt,
              item, scl, present, src, sess, failed, ownedKeys,
              pos, mode, val, acc, structure, report, failDocs, error, trace>>
regVars == <<regMap, regPending, regDesc, regOp>>
ixVars == <<ixServices, ixPairs, ixInserted, ixFailed, ixOp>>
rcVars == <<rcResult, rcInserted>>
vars == <<pipeVars, regVars, ixVars, rcVars>>

----------------------------------------------------------------------------
(* Bounds of the model *)

\* package versions are 1..MaxVer
MaxVer == 2

\* --el default
DefaultEL == 7

----------------------------------------------------------------------------
(* Strings are tuples of characters, so that str.startswith is computed *)

A == <<"a">>
AB == <<"a", "b">>

PkgNames == {A, AB}
CollNames == {A, AB}
NoDir == <<>>

CharRank(c) == IF c = "a" THEN 1 ELSE 2

RECURSIVE StrLess(_, _)
StrLess(s, t) ==
    IF t = <<>> THEN FALSE
    ELSE IF s = <<>> THEN TRUE
    ELSE IF Head(s) = Head(t) THEN StrLess(Tail(s), Tail(t))
    ELSE CharRank(Head(s)) < CharRank(Head(t))

StartsWith(s, prefix) ==
    /\ Len(prefix) <= Len(s)
    /\ SubSeq(s, 1, Len(prefix)) = prefix

\* a package as it travels: metadata, and the directory it was downloaded to
Pkg(n, v) == [name |-> n, ver |-> v, dir |-> NoDir]
Metadata == {Pkg(n, v) : n \in PkgNames, v \in 1..MaxVer}

\* ordering of packages (rpm.Metadata, and local paths): total
PkgLess(p, q) ==
    IF p.dir # q.dir THEN StrLess(p.dir, q.dir)
    ELSE IF p.name # q.name THEN StrLess(p.name, q.name)
    ELSE p.ver < q.ver

PkgGE(p, q) == ~PkgLess(p, q)

\* list(item.package_iter): the packages as they arrive
Unsorted(s) == s

Sorted(s) == SortSeq(s, PkgLess)

Range(s) == {s[i] : i \in DOMAIN s}

SeqsUpTo(S, n) == UNION {[1..m -> S] : m \in 0..n}

Distinct(s) == \A i, j \in DOMAIN s : i # j => s[i] # s[j]

\* the answers Repository.latest_builds can give: one latest build per name
BuildLists ==
    {s \in SeqsUpTo(Metadata, Cardinality(PkgNames)) :
        \A i, j \in DOMAIN s : i # j => s[i].name # s[j].name}

Commands == {"diff", "download", "build"}

\* the chains of commands: each command at most once, in any order
Chains == {s \in SeqsUpTo(Commands, Cardinality(Commands)) : Distinct(s)} \ {<<>>}

\* the chains that hold diff twice: the second diff is fed the items of the
\* first, directly or through one more stage
RepeatChains ==
    {s \in SeqsUpTo(Commands, Cardinality(Commands)) :
        Cardinality({i \in DOMAIN s : s[i] = "diff"}) = 2}

\* the collections of a run: dict(zip(collection_seq, ...)) keeps each name once
CollectionSeqs == {s \in SeqsUpTo(CollNames, Cardinality(CollNames)) : Distinct(s)}

----------------------------------------------------------------------------
(* Items, events, and the pure parts of the stages *)

N == Len(chain)
StageIdx == 1..N

\* CollectionSequence.Item; iter names the stage whose product package_iter is
\* (0: the [] of run_chain)
Item(e, c, it) == [el |-> e, collection |-> c, iter |-> it]
NoItem == Item(0, <<>>, 0)
NoPkg == [name |-> <<>>, ver |-> 0, dir |-> NoDir]

\* an item built anew from the collection name and the packages only
EvolveWithoutEL(it, k) == [el |-> 0, collection |-> it.collection, iter |-> k]

\* attr.evolve(scl, package_iter=...): a new item, only package_iter replaced
Evolve(it, k) == [it EXCEPT !.iter = k]

\* one step of a stage, as the trace records it
Ev(op, k, c, p, ans, res) ==
    [op |-> op, stage |-> k, coll |-> c, pkg |-> p, ans |-> ans, res |-> res]

\* the service operations among the steps
ServiceOps == {"latest_builds", "download", "build", "acquire", "release"}

\* a diff that hands on the package sequence it was given: the sequence bottoms
\* out in the first diff of the chain
FirstDiff ==
    IF \E k \in StageIdx : chain[k] = "diff"
    THEN CHOOSE k \in StageIdx :
            chain[k] = "diff" /\ \A j \in StageIdx : chain[j] = "diff" => k <= j
    ELSE 0

\* the stage whose product the consumer's package_iter bottoms out in: the last
\* diff of the chain (diff never reads its input's package_iter), or 0
LastDiff ==
    IF \E k \in StageIdx : chain[k] = "diff"
    THEN CHOOSE k \in StageIdx :
            chain[k] = "diff" /\ \A j \in StageIdx : chain[j] = "diff" => j <= k
    ELSE 0

\* present = {build.name: build for build in latest_builds(destination)
\*            if build.name.startswith(scl.collection)}
PresentOf(ans, coll) ==
    LET kept == SelectSeq(ans, LAMBDA b : StartsWith(b.name, coll))
        last(nm) == CHOOSE i \in DOMAIN kept :
                        /\ kept[i].name = nm
                        /\ \A j \in DOMAIN kept : kept[j].name = nm => j <= i
    IN  [nm \in {kept[i].name : i \in DOMAIN kept} |-> kept[last(nm)]]

\* obsolete(package) with > for >=
ObsoleteStrict(pres, pkg) ==
    /\ pkg.name \in DOMAIN pres
    /\ PkgLess(pkg, pres[pkg.name])

\* obsolete(package)
Obsolete(pres, pkg) ==
    /\ pkg.name \in DOMAIN pres
    /\ PkgGE(pres[pkg.name], pkg)

\* the condition of the generator expression `missing`
IsMissing(pkg, coll, pres) ==
    /\ StartsWith(pkg.name, coll)
    /\ ~Obsolete(pres, pkg)

\* index of the first element of s the generator expression lets through, or 0
FirstMissing(s, coll, pres) ==
    IF \E i \in DOMAIN s : IsMissing(s[i], coll, pres)
    THEN CHOOSE i \in DOMAIN s :
            /\ IsMissing(s[i], coll, pres)
            /\ \A j \in 1..(i - 1) : ~IsMissing(s[j], coll, pres)
    ELSE 0

\* repo.download(package, collection_dir): the local path under collection_dir
Download(pkg, coll) == [pkg EXCEPT !.dir = coll]

\* builder.build(target, pkg): the metadata of the built package
BuildResult(pkg) == [pkg EXCEPT !.dir = NoDir]

\* BuildFailure(package, reason)
Failure(pkg) == [package |-> pkg, reason |-> "failed"]

\* a build closure bound to the first item of the stream: the failure goes
\* under the first collection
AddFailureElsewhere(f, coll, failure) ==
    IF colls[1] \in DOMAIN f
    THEN [f EXCEPT ![colls[1]] = @ \cup {failure}]
    ELSE (colls[1] :> {failure}) @@ f

\* failed[coll].add(failure) on a defaultdict(set)
AddFailure(f, coll, failure) ==
    IF coll \in DOMAIN f
    THEN [f EXCEPT ![coll] = @ \cup {failure}]
    ELSE (coll :> {failure}) @@ f

\* collection_map[item.collection] = sorted(item.package_iter)
SetCollection(st, coll, pkgs) ==
    IF coll \in DOMAIN st
    THEN [st EXCEPT ![coll] = Sorted(pkgs)]
    ELSE (coll :> Sorted(pkgs)) @@ st

\* the concrete key params.service.unalias / find work on
Key(kind, group, coll) == <<kind, group, coll>>

\* unalias raises when the group has no template (the same for every item of
\* a run); find raises when no service owns the key (the same for the same
\* key). What the run has not looked at yet can be either way
ResolveOutcomes(key) ==
    (IF <<key[1], key[2]>> \in aliases THEN {} ELSE {"alias"})
    \cup (IF key \in ownedKeys THEN {"ok"} ELSE {"ok", "unresolved"})

----------------------------------------------------------------------------
(* The run: run_chain composes the processors, consume pulls the items *)

inputs == <<chain, colls>>

\* a run of the pipeline touches no registry, index or container under test
others == <<regVars, ixVars, rcVars>>

\* the state run_chain starts from, whatever the command line
PipeStart ==
    /\ colls \in CollectionSeqs
    /\ pep479 = "unknown"
    /\ aliases = {}
    /\ pc = "main"
    /\ composed = 0
    /\ idx = 0
    /\ stageAt = 0
    /\ item = NoItem
    /\ scl = [k \in 1..Len(chain) |-> NoItem]
    /\ present = [k \in 1..Len(chain) |-> <<>>]
    /\ src = [k \in 1..Len(chain) |-> [state |-> "none", rest |-> <<>>]]
    /\ sess = [k \in 1..Len(chain) |-> "none"]
    /\ failed = [k \in 1..Len(chain) |-> <<>>]
    /\ ownedKeys = {}
    /\ pos = 0
    /\ mode = "idle"
    /\ val = NoPkg
    /\ acc = <<>>
    /\ structure = <<>>
    /\ report = [written |-> FALSE, content |-> <<>>]
    /\ failDocs = <<>>
    /\ error = "none"
    /\ trace = <<>>

InitPipe ==
    /\ chain \in Chains
    /\ PipeStart

\* a stage that is a plain function: diff's body runs when it is applied
ComposeEager(stage, log) ==
    IF stage = "diff"
    THEN Append(log, Ev("latest_builds", 0, <<>>, NoPkg, <<>>, "destination"))
    ELSE log

\* what applying one processor to the stream does to the trace: every stage is
\* a generator function, so calling it runs none of its body
ComposeEffect(stage, log) == log

\* reduce(lambda data, proc: proc(data), processor_seq, collection_seq): one step
Compose ==
    /\ pc = "main"
    /\ composed < N
    /\ composed' = composed + 1
    /\ trace' = ComposeEffect(chain[composed + 1], trace)
    /\ UNCHANGED <<others, inputs, pep479, aliases, pc, idx, stageAt, item, scl, present,
                   src, sess, failed, ownedKeys, pos, mode, val, acc, structure,
                   report, failDocs, error>>

\* CollectionSequence.consume(pipeline): structure = {}, the for loop starts
StartConsume ==
    /\ pc = "main"
    /\ composed = N
    /\ pc' = "consume"
    /\ UNCHANGED <<others, inputs, pep479, aliases, composed, idx, stageAt, item, scl,
                   present, src, sess, failed, ownedKeys, pos, mode, val, acc,
                   structure, report, failDocs, error, trace>>

\* `for item in iterator`: every stage resumes after its yield and asks its
\* input for the next item; CollectionSequence.__iter__ yields it, or is
\* exhausted. The exhausted package sequences of the item before, and what
\* their closures held, are not read again; the trace starts anew with each
\* item and keeps the last item's steps when the stream ends
PullItem ==
    /\ pc = "consume"
    /\ IF idx < Len(colls)
       THEN /\ idx' = idx + 1
            /\ item' = Item(DefaultEL, colls[idx + 1], 0)
            /\ pc' = "item"
       ELSE /\ pc' = "end"
            /\ UNCHANGED <<idx, item>>
    /\ stageAt' = 1
    /\ trace' = IF idx < Len(colls) THEN <<>> ELSE trace
    /\ present' = [k \in StageIdx |-> <<>>]
    /\ src' = [k \in StageIdx |-> [state |-> "none", rest |-> <<>>]]
    /\ sess' = [k \in StageIdx |-> "none"]
    /\ UNCHANGED <<others, inputs, pep479, aliases, composed, scl, failed, ownedKeys, pos,
                   mode, val, acc, structure, report, failDocs, error>>

\* an exception leaves a stage body while an item is handed down the chain: no
\* package sequence is being pulled
AbortItem(k, e) ==
    /\ pc' = "aborted"
    /\ error' = e
    /\ scl' = [scl EXCEPT ![k] = item]
    /\ UNCHANGED <<others, inputs, pep479, aliases, composed, idx, stageAt, item, present,
                   src, sess, failed, ownedKeys, pos, mode, val, acc, structure,
                   report, failDocs, trace>>

\* diff, one item: present is built at once from latest_builds(destination),
\* missing is a generator expression nobody has pulled yet
DiffItem ==
    /\ pc = "item"
    /\ stageAt \in StageIdx
    /\ chain[stageAt] = "diff"
    /\ LET k == stageAt
           c == item.collection
           key == Key("tag", "destination", c)
       IN  \E o \in ResolveOutcomes(key) :
             \/ /\ o = "ok"
                /\ \E ans \in BuildLists :
                     /\ present' = [present EXCEPT ![k] = PresentOf(ans, c)]
                     /\ trace' = Append(trace,
                           Ev("latest_builds", k, c, NoPkg, ans, "destination"))
                /\ scl' = [scl EXCEPT ![k] = item]
                /\ src' = [src EXCEPT ![k] = [state |-> "new", rest |-> <<>>]]
                /\ aliases' = aliases \cup {<<key[1], key[2]>>}
                /\ ownedKeys' = ownedKeys \cup {key}
                /\ item' = Evolve(item, k)
                /\ stageAt' = k + 1
                /\ UNCHANGED <<others, inputs, pep479, pc, composed, idx, sess, failed, pos,
                               mode, val, acc, structure, report, failDocs, error>>
             \/ /\ o # "ok"
                /\ AbortItem(k, o)

\* download, one item: the tag is resolved and the directory made at once, the
\* downloads are a map nobody has pulled yet
DownloadItem ==
    /\ pc = "item"
    /\ stageAt \in StageIdx
    /\ chain[stageAt] = "download"
    /\ LET k == stageAt
           c == item.collection
           key == Key("tag", "source", c)
       IN  \E o \in ResolveOutcomes(key) :
             \/ /\ o = "ok"
                /\ scl' = [scl EXCEPT ![k] = item]
                /\ aliases' = aliases \cup {<<key[1], key[2]>>}
                /\ ownedKeys' = ownedKeys \cup {key}
                /\ trace' = Append(trace, Ev("mkdir", k, c, NoPkg, <<>>, ""))
                /\ item' = Evolve(item, k)
                /\ stageAt' = k + 1
                /\ UNCHANGED <<others, inputs, pep479, pc, composed, idx, present, src, sess,
                               failed, pos, mode, val, acc, structure, report,
                               failDocs, error>>
             \/ /\ o # "ok"
                /\ AbortItem(k, o)

\* build, one item: target and builder are resolved at once, the generator
\* build_and_filter_failures is created and not started
BuildItem ==
    /\ pc = "item"
    /\ stageAt \in StageIdx
    /\ chain[stageAt] = "build"
    /\ LET k == stageAt
           c == item.collection
           key == Key("target", "destination", c)
       IN  \E o \in ResolveOutcomes(key) :
             \/ /\ o = "ok"
                /\ scl' = [scl EXCEPT ![k] = item]
                /\ aliases' = aliases \cup {<<key[1], key[2]>>}
                /\ ownedKeys' = ownedKeys \cup {key}
                /\ item' = Evolve(item, k)
                /\ stageAt' = k + 1
                /\ UNCHANGED <<others, inputs, pep479, pc, composed, idx, present, src, sess,
                               failed, pos, mode, val, acc, structure, report,
                               failDocs, error, trace>>
             \/ /\ o # "ok"
                /\ AbortItem(k, o)

----------------------------------------------------------------------------
(* Pulling one item's package sequence: sorted(item.package_iter) *)

\* build generators without `with builder`: none enters a session
AcqLayersNone(j) == {}

\* the build generators, from layer j down to the source, that have not started
AcqLayers(j) ==
    {i \in (LastDiff + 1)..j : chain[i] = "build" /\ sess[i] = "none"}

RECURSIVE AcqEvents(_, _)
AcqEvents(j, S) ==
    IF j <= 0 THEN <<>>
    ELSE (IF j \in S
          THEN <<Ev("acquire", j, scl[j].collection, NoPkg, <<>>, "")>> ELSE <<>>)
         \o AcqEvents(j - 1, S)

\* next() on layer j: the request travels down to the source; a build
\* generator resumed for the first time enters `with builder` before it asks
\* its input
Descend(j, log) ==
    /\ sess' = [i \in StageIdx |-> IF i \in AcqLayers(j) THEN "held" ELSE sess[i]]
    /\ trace' = log \o AcqEvents(j, AcqLayers(j))
    /\ pos' = LastDiff
    /\ mode' = "down"

\* `with builder` when control leaves the block, by exhaustion or by exception
ExitWith(s) == IF s = "held" THEN "released" ELSE s

RECURSIVE ReleaseEvents(_)
ReleaseEvents(i) ==
    IF i > N THEN <<>>
    ELSE (IF chain[i] = "build" /\ sess[i] = "held" /\ ExitWith(sess[i]) # "held"
          THEN <<Ev("release", i, scl[i].collection, NoPkg, <<>>, "")>> ELSE <<>>)
         \o ReleaseEvents(i + 1)

\* an exception leaves the layers i..N, sorted(), consume and run_chain: the
\* build generators it passes through leave their with block; the generators
\* below layer i stay suspended at their yield
Raise(i, log, e) ==
    /\ sess' = [j \in StageIdx |->
                  IF j >= i /\ chain[j] = "build" THEN ExitWith(sess[j]) ELSE sess[j]]
    /\ trace' = log \o ReleaseEvents(i)
    /\ pc' = "aborted"
    /\ error' = e
    /\ mode' = "idle"

\* a consumer that stores the item's iterator undrained and takes the next item
ItemReceivedLazy ==
    /\ pc = "item"
    /\ stageAt = N + 1
    /\ pc' = "consume"
    /\ acc' = <<>>
    /\ structure' = SetCollection(structure, item.collection, <<>>)
    /\ UNCHANGED <<others, inputs, pep479, aliases, composed, idx, stageAt, item, scl,
                   present, src, sess, failed, ownedKeys, pos, mode, val, report,
                   failDocs, error, trace>>

\* consume got the item from the last stage: sorted() starts pulling
ItemReceived ==
    /\ pc = "item"
    /\ stageAt = N + 1
    /\ pc' = "pkgs"
    /\ acc' = <<>>
    /\ Descend(N, trace)
    /\ UNCHANGED <<others, inputs, pep479, aliases, composed, idx, stageAt, item, scl,
                   present, src, failed, ownedKeys, val, structure, report,
                   failDocs, error>>

\* no diff in the chain: the sequence bottoms out in the [] of run_chain
EmptySource ==
    /\ pc = "pkgs"
    /\ mode = "down"
    /\ pos = 0
    /\ pos' = 1
    /\ mode' = "stop"
    /\ UNCHANGED <<others, inputs, pep479, aliases, pc, composed, idx, stageAt, item, scl,
                   present, src, sess, failed, ownedKeys, val, acc, structure,
                   report, failDocs, error, trace>>

\* first next() on `missing`: latest_builds(params.source) runs up to its
\* yield from: unalias, find, repo.latest_builds(tag)
SourceOpen ==
    /\ pc = "pkgs"
    /\ mode = "down"
    /\ pos \in StageIdx
    /\ src[pos].state = "new"
    /\ LET d == pos
           c == scl[d].collection
           key == Key("tag", "source", c)
       IN  \E o \in ResolveOutcomes(key) :
             \/ /\ o = "ok"
                /\ \E ans \in BuildLists :
                     /\ src' = [src EXCEPT ![d] = [state |-> "open", rest |-> ans]]
                     /\ trace' = Append(trace,
                           Ev("latest_builds", d, c, NoPkg, ans, "source"))
                /\ aliases' = aliases \cup {<<key[1], key[2]>>}
                /\ ownedKeys' = ownedKeys \cup {key}
                /\ UNCHANGED <<pc, pos, mode, sess, error>>
             \/ /\ o # "ok"
                /\ Raise(d + 1, trace, o)
                /\ UNCHANGED <<pos, src, aliases, ownedKeys>>
    /\ UNCHANGED <<others, inputs, pep479, composed, idx, stageAt, item, scl, present,
                   failed, val, acc, structure, report, failDocs>>

\* next() on `missing`: the generator expression skips what its condition
\* rejects and yields the next package, or is exhausted
SourceNext ==
    /\ pc = "pkgs"
    /\ mode = "down"
    /\ pos \in StageIdx
    /\ src[pos].state = "open"
    /\ LET d == pos
           c == scl[d].collection
           rest == src[d].rest
           i == FirstMissing(rest, c, present[d])
       IN  IF i = 0
           THEN /\ src' = [src EXCEPT ![d] = [state |-> "done", rest |-> <<>>]]
                /\ mode' = "stop"
                /\ UNCHANGED <<val, trace>>
           ELSE /\ src' = [src EXCEPT ![d].rest = SubSeq(rest, i + 1, Len(rest))]
                /\ val' = rest[i]
                /\ trace' = Append(trace, Ev("emit", d, c, rest[i], <<>>, ""))
                /\ mode' = "up"
    /\ pos' = pos + 1
    /\ UNCHANGED <<others, inputs, pep479, aliases, pc, composed, idx, stageAt, item, scl,
                   present, sess, failed, ownedKeys, acc, structure, report,
                   failDocs, error>>

\* a download stage with build's policy: the failure is dropped and the next
\* package is asked for
DownloadSkips(k, log) ==
    /\ Descend(k - 1, log)
    /\ UNCHANGED <<pc, error, val>>

\* logged_download has no handler: what repo.download raises leaves the map
\* and every stage above it
DownloadRaises(k, log) ==
    /\ Raise(k + 1, log, "download")
    /\ UNCHANGED <<pos, val>>

\* map(logged_download, ...): repo.download(package, collection_dir); what it
\* raises is not caught
DownloadPkg ==
    /\ pc = "pkgs"
    /\ mode = "up"
    /\ pos \in StageIdx
    /\ chain[pos] = "download"
    /\ LET k == pos
           c == scl[k].collection
       IN  \E o \in {"ok", "raise"} :
             LET log == Append(trace, Ev("download", k, c, val, <<>>, o))
             IN  IF o = "ok"
                 THEN /\ val' = Download(val, c)
                      /\ trace' = log
                      /\ pos' = k + 1
                      /\ UNCHANGED <<pc, mode, sess, error>>
                 ELSE DownloadRaises(k, log)
    /\ UNCHANGED <<others, inputs, pep479, aliases, composed, idx, stageAt, item, scl,
                   present, src, failed, ownedKeys, acc, structure, report,
                   failDocs>>

\* a handler outside the for loop: the first BuildFailure ends the generator
AfterFailureStop(k, log) ==
    /\ sess' = [sess EXCEPT ![k] = ExitWith(@)]
    /\ trace' = Append(log, Ev("release", k, scl[k].collection, NoPkg, <<>>, ""))
    /\ pos' = k + 1
    /\ mode' = "stop"

\* a handler that submits the failed package once more before it gives up
AfterFailureRetry(k, log) ==
    IF Len(SelectSeq(log, LAMBDA e : e.op = "build" /\ e.stage = k /\ e.pkg = val)) < 2
    THEN /\ sess' = sess
         /\ trace' = log
         /\ pos' = k
         /\ mode' = "up"
    ELSE Descend(k - 1, log)

\* after `except BuildFailure` the for loop goes on: the generator asks its
\* input for the next package
AfterFailure(k, log) == Descend(k - 1, log)

\* build_and_filter_failures, one package: yield builder.build(target, pkg);
\* a BuildFailure is recorded under scl.collection and the loop pulls the next
\* package; any other exception leaves the with block and the generator
BuildPkg ==
    /\ pc = "pkgs"
    /\ mode = "up"
    /\ pos \in StageIdx
    /\ chain[pos] = "build"
    /\ LET k == pos
           c == scl[k].collection
       IN  \E o \in {"ok", "failure", "error"} :
             LET log == Append(trace, Ev("build", k, c, val, <<>>, o))
             IN  \/ /\ o = "ok"
                    /\ val' = BuildResult(val)
                    /\ pos' = k + 1
                    /\ trace' = log
                    /\ UNCHANGED <<pc, mode, sess, failed, error>>
                 \/ /\ o = "failure"
                    /\ failed' = [failed EXCEPT ![k] = AddFailure(@, c, Failure(val))]
                    /\ AfterFailure(k, log)
                    /\ UNCHANGED <<pc, val, error>>
                 \/ /\ o = "error"
                    /\ Raise(k, log, "build")
                    /\ UNCHANGED <<pos, val, failed>>
    /\ UNCHANGED <<others, inputs, pep479, aliases, composed, idx, stageAt, item, scl,
                   present, src, ownedKeys, acc, structure, report, failDocs>>

\* the input of layer pos is exhausted: a map is exhausted with it; a build
\* generator leaves its for loop and its with block, and is exhausted
LayerStop ==
    /\ pc = "pkgs"
    /\ mode = "stop"
    /\ pos \in StageIdx
    /\ IF chain[pos] = "build"
       THEN /\ sess' = [sess EXCEPT ![pos] = ExitWith(@)]
            /\ trace' = trace \o
                 (IF sess[pos] = "held" /\ ExitWith(sess[pos]) # "held"
                  THEN <<Ev("release", pos, scl[pos].collection, NoPkg, <<>>, "")>>
                  ELSE <<>>)
       ELSE UNCHANGED <<sess, trace>>
    /\ pos' = pos + 1
    /\ UNCHANGED <<others, inputs, pep479, aliases, pc, composed, idx, stageAt, item, scl,
                   present, src, failed, ownedKeys, mode, val, acc, structure,
                   report, failDocs, error>>

\* sorted() appends the package and asks for the next
ConsumeValue ==
    /\ pc = "pkgs"
    /\ mode = "up"
    /\ pos = N + 1
    /\ acc' = Append(acc, val)
    /\ Descend(N, trace)
    /\ UNCHANGED <<others, inputs, pep479, aliases, pc, composed, idx, stageAt, item, scl,
                   present, src, failed, ownedKeys, val, structure, report,
                   failDocs, error>>

\* the sequence is exhausted: collection_map[item.collection] = sorted(...)
ConsumeStop ==
    /\ pc = "pkgs"
    /\ mode = "stop"
    /\ pos = N + 1
    /\ structure' = SetCollection(structure, item.collection, acc)
    /\ pc' = "consume"
    /\ mode' = "idle"
    /\ UNCHANGED <<others, inputs, pep479, aliases, composed, idx, stageAt, item, scl,
                   present, src, sess, failed, ownedKeys, pos, val, acc, report,
                   failDocs, error, trace>>

----------------------------------------------------------------------------
(* End of the stream: the stages' code after their loops, and the report *)

\* package identity string (NEVRA)
Nevra(pkg) == <<pkg.name, pkg.ver>>

\* sorted(..., reverse=True)
SortFailuresReversed(S) ==
    CHOOSE s \in [1..Cardinality(S) -> S] :
        /\ Range(s) = S
        /\ \A i, j \in DOMAIN s : i < j => ~PkgLess(s[i].package, s[j].package)

\* sorted(fails, key=attrgetter('package'))
SortFailures(S) ==
    CHOOSE s \in [1..Cardinality(S) -> S] :
        /\ Range(s) = S
        /\ \A i, j \in DOMAIN s : i < j => ~PkgLess(s[j].package, s[i].package)

\* readable_failures: collection -> ordered (nevra, reason) entries
Readable(f) ==
    [c \in DOMAIN f |->
        LET s == SortFailures(f[c])
        IN  [i \in DOMAIN s |-> [nevra |-> Nevra(s[i].package), reason |-> s[i].reason]]]

\* `raise StopIteration()` in a generator body ends the generator, or, under
\* PEP 479, is replaced by RuntimeError; which, the run finds out here
StopIterationOutcomes ==
    IF pep479 = "unknown" THEN {"yes", "no"} ELSE {pep479}

\* the input stream is exhausted: stage stageAt leaves its for loop. diff and
\* download end; build ends by `raise StopIteration()` when nothing failed,
\* and otherwise dumps the failures and ends
EndStage ==
    /\ pc = "end"
    /\ stageAt \in StageIdx
    /\ LET k == stageAt
       IN  IF chain[k] = "build" /\ DOMAIN failed[k] = {}
           THEN \E p \in StopIterationOutcomes :
                  /\ pep479' = p
                  /\ IF p = "yes"
                     THEN /\ pc' = "aborted"
                          /\ error' = "runtime"
                          /\ UNCHANGED <<stageAt, failDocs>>
                     ELSE /\ stageAt' = k + 1
                          /\ UNCHANGED <<pc, failDocs, error>>
           ELSE IF chain[k] = "build"
                THEN /\ failDocs' = Append(failDocs,
                            [stage |-> k, doc |-> Readable(failed[k])])
                     /\ stageAt' = k + 1
                     /\ UNCHANGED <<pc, pep479, error>>
                ELSE /\ stageAt' = k + 1
                     /\ UNCHANGED <<pc, pep479, failDocs, error>>
    /\ UNCHANGED <<others, inputs, aliases, composed, idx, item, scl, present, src, sess,
                   failed, ownedKeys, pos, mode, val, acc, structure, report,
                   trace>>

\* consume returns; to_yaml(stream=report)
WriteReport ==
    /\ pc = "end"
    /\ stageAt = N + 1
    /\ report' = [written |-> TRUE, content |-> structure]
    /\ pc' = "done"
    /\ UNCHANGED <<others, inputs, pep479, aliases, composed, idx, stageAt, item, scl,
                   present, src, sess, failed, ownedKeys, pos, mode, val, acc,
                   structure, failDocs, error, trace>>

\* the process ends. A generator left suspended inside `with builder` is closed
\* (and the session released) only if the interpreter finalizes it
Exit ==
    /\ pc \in {"done", "aborted"}
    /\ pc' = "exited"
    /\ \E finalized \in BOOLEAN :
         sess' = [k \in StageIdx |-> IF finalized THEN ExitWith(sess[k]) ELSE sess[k]]
    /\ UNCHANGED <<others, inputs, pep479, aliases, composed, idx, stageAt, item, scl,
                   present, src, failed, ownedKeys, pos, mode, val, acc, structure,
                   report, failDocs, error, trace>>

----------------------------------------------------------------------------
(* The service type registry: register, its decorator, make_instance *)

TypeNames == {"registered", "test"}
Classes == {"Registered", "Test"}

\* initializer=None is ""
Initializers == {"", "from_test", "none"}

\* the attributes a class has besides __init__
ClassAttrs(cls) == IF cls = "Test" THEN {"from_test"} ELSE {}

\* what the registry stores: cls, or getattr(cls, initializer)
Initializer(cls, init) == [cls |-> cls, via |-> init]

NoInstance == [ctor |-> Initializer("", ""), kwargs |-> <<>>]

\* the configuration maps a caller can hold
Descriptors ==
    {<<>>, [name |-> "configured"]}
    \cup {[type |-> t] : t \in TypeNames}
    \cup {[type |-> t, name |-> "configured"] : t \in TypeNames}

\* the decorators register can return
Decorators == [name : TypeNames, init : Initializers]

RegOp(op, name, result, inst) ==
    [op |-> op, name |-> name, result |-> result, inst |-> inst]

RegIdle ==
    /\ regMap = <<>>
    /\ regPending = {}
    /\ regDesc = <<>>
    /\ regOp = RegOp("none", "", "none", NoInstance)

\* register without its check
IsDuplicateNever(name, registry) == FALSE

\* `if name in registry: raise DuplicateError(name)`
IsDuplicate(name, registry) == name \in DOMAIN registry

\* register(name, initializer, registry=...): the check, then the decorator
\* is returned; nothing is inserted yet
Register(name, init) ==
    /\ IF IsDuplicate(name, regMap)
       THEN /\ regOp' = RegOp("register", name, "DuplicateError", NoInstance)
            /\ UNCHANGED regPending
       ELSE /\ regOp' = RegOp("register", name, "ok", NoInstance)
            /\ regPending' = regPending \cup {[name |-> name, init |-> init]}
    /\ UNCHANGED <<regMap, regDesc, pipeVars, ixVars, rcVars>>

\* getattr(cls, initializer, cls): no error for a missing attribute
GetattrDefaults(cls, init) == FALSE

\* `if initializer: ... getattr(cls, initializer)` raises AttributeError
GetattrRaises(cls, init) == init # "" /\ init \notin ClassAttrs(cls)

\* decorator(cls), for a decorator register returned: registry[name] is set to
\* cls or to getattr(cls, initializer), which raises when cls has no such
\* attribute
ApplyDecorator(d, cls) ==
    /\ d \in regPending
    /\ IF GetattrRaises(cls, d.init)
       THEN /\ regOp' = RegOp("decorator", d.name, "AttributeError", NoInstance)
            /\ UNCHANGED regMap
       ELSE /\ regOp' = RegOp("decorator", d.name, "ok", NoInstance)
            /\ regMap' = (d.name :> Initializer(cls, d.init)) @@ regMap
    /\ UNCHANGED <<regPending, regDesc, pipeVars, ixVars, rcVars>>

\* the caller takes a fresh configuration map
NewDescriptor(d) ==
    /\ regDesc' = d
    /\ regOp' = RegOp("descriptor", "", "ok", NoInstance)
    /\ UNCHANGED <<regMap, regPending, pipeVars, ixVars, rcVars>>

\* configuration_map['type'] read, not popped
KeepType(d) == d

\* configuration_map.pop('type'): the map without the key
PopType(d) == [k \in DOMAIN d \ {"type"} |-> d[k]]

\* make_instance(configuration_map, registry=...)
MakeInstance ==
    /\ IF "type" \notin DOMAIN regDesc
       THEN /\ regOp' = RegOp("make_instance", "", "KeyError", NoInstance)
            /\ UNCHANGED regDesc
       ELSE /\ regDesc' = PopType(regDesc)
            /\ IF regDesc.type \notin DOMAIN regMap
               THEN regOp' = RegOp("make_instance", regDesc.type, "KeyError", NoInstance)
               ELSE regOp' = RegOp("make_instance", regDesc.type, "ok",
                                   [ctor |-> regMap[regDesc.type],
                                    kwargs |-> PopType(regDesc)])
    /\ UNCHANGED <<regMap, regPending, pipeVars, ixVars, rcVars>>

----------------------------------------------------------------------------
(* The capability index: Index(key_attribute), insert, find *)

\* routing keys are 1..MaxKey, service objects 1..MaxSvc
MaxKey == 2
MaxSvc == 2

Keys == 1..MaxKey
SvcIds == 1..MaxSvc

\* the attribute Index('test_key_set') reads, and another one
IndexAttr == "test_key_set"
AttrNames == {IndexAttr, "key_set"}

IxOp(op, arg, result, ret) == [op |-> op, arg |-> arg, result |-> result, ret |-> ret]

IxIdle ==
    /\ ixServices = [s \in SvcIds |-> [attr |-> IndexAttr, keys |-> {}]]
    /\ ixPairs = {}
    /\ ixInserted = {}
    /\ ixFailed = FALSE
    /\ ixOp = IxOp("none", 0, "none", 0)

IxInit ==
    /\ ixServices \in [SvcIds -> [attr : AttrNames, keys : SUBSET Keys]]
    /\ ixPairs = {}
    /\ ixInserted = {}
    /\ ixFailed = FALSE
    /\ ixOp = IxOp("none", 0, "none", 0)

\* an index that reads whatever key set a service has
HasAnyKeyAttr(s) == TRUE

\* the service has the attribute the index is named after
HasKeyAttr(s) == ixServices[s].attr = IndexAttr

\* the value of the service's key-set attribute
KeySet(s) == ixServices[s].keys

Owners(pairs, key) == {s \in SvcIds : <<key, s>> \in pairs}

\* insert that leaves a claimed key to its owner and goes on
RECURSIVE InsertKeysSkip(_, _, _)
InsertKeysSkip(pairs, s, order) ==
    IF order = <<>> THEN [pairs |-> pairs, result |-> "ok"]
    ELSE LET key == Head(order)
         IN  IF Owners(pairs, key) = {}
             THEN InsertKeysSkip(pairs \cup {<<key, s>>}, s, Tail(order))
             ELSE InsertKeysSkip(pairs, s, Tail(order))

\* insert that enters every key, claimed or not
RECURSIVE InsertKeysAdd(_, _, _)
InsertKeysAdd(pairs, s, order) ==
    IF order = <<>> THEN [pairs |-> pairs, result |-> "ok"]
    ELSE InsertKeysAdd(pairs \cup {<<Head(order), s>>}, s, Tail(order))

\* one key of the loop of insert: set it when absent, raise when another
\* service has it
RECURSIVE InsertKeys(_, _, _)
InsertKeys(pairs, s, order) ==
    IF order = <<>> THEN [pairs |-> pairs, result |-> "ok"]
    ELSE LET key == Head(order)
         IN  IF Owners(pairs, key) = {}
             THEN InsertKeys(pairs \cup {<<key, s>>}, s, Tail(order))
             ELSE IF Owners(pairs, key) = {s}
                  THEN InsertKeys(pairs, s, Tail(order))
                  ELSE [pairs |-> pairs, result |-> "DuplicateKeyError"]

\* the orders a set can be iterated in
Orders(S) == {o \in [1..Cardinality(S) -> S] : Range(o) = S}

\* insert(service)
Insert(s) ==
    /\ IF ~HasKeyAttr(s)
       THEN /\ ixOp' = IxOp("insert", s, "ok", s)
            /\ ixInserted' = ixInserted \cup {s}
            /\ UNCHANGED <<ixPairs, ixFailed>>
       ELSE \E order \in Orders(KeySet(s)) :
              LET r == InsertKeys(ixPairs, s, order)
              IN  /\ ixPairs' = r.pairs
                  /\ ixOp' = IxOp("insert", s, r.result, IF r.result = "ok" THEN s ELSE 0)
                  /\ ixInserted' = IF r.result = "ok" THEN ixInserted \cup {s} ELSE ixInserted
                  /\ ixFailed' = (ixFailed \/ r.result # "ok")
    /\ UNCHANGED <<ixServices, pipeVars, regVars, rcVars>>

\* index lookup by exact key
Lookup(pairs, key) ==
    IF Owners(pairs, key) = {} THEN 0 ELSE CHOOSE s \in Owners(pairs, key) : TRUE

\* find(key)
Find(key) ==
    /\ ixOp' = IF Lookup(ixPairs, key) = 0
               THEN IxOp("find", key, "UnresolvedKeyError", 0)
               ELSE IxOp("find", key, "ok", Lookup(ixPairs, key))
    /\ UNCHANGED <<ixServices, ixPairs, ixInserted, ixFailed, pipeVars, regVars, rcVars>>

----------------------------------------------------------------------------
(* The report container: Container(), insert_package *)

\* package names are 1..MaxNvr
MaxNvr == 2

Dists == {"el7", "fc29"}
NoScl == "None"
Scls == {"rh-python36", NoScl}

\* a package: metadata (name, release = number and distribution tag), and the
\* collection it belongs to, if any
RcPackages == [name : 1..MaxNvr, release : {1} \X Dists, scl : Scls]

\* the outer key of the packages without a collection
Ungrouped == "~"

RcIdle ==
    /\ rcResult = {}
    /\ rcInserted = {}

\* a container that files every package under the ungrouped marker
OuterKeyUngrouped(pkg) == Ungrouped

\* the outer key: the collection, or the ungrouped marker
OuterKey(pkg) == IF pkg.scl = NoScl THEN Ungrouped ELSE pkg.scl

\* the inner key: str(pkg.metadata.dist), the distribution tag of the release
InnerKey(pkg) == pkg.release[2]

\* insert_package(pkg)
InsertPackage(pkg) ==
    /\ rcResult' = rcResult \cup {<<OuterKey(pkg), InnerKey(pkg), pkg>>}
    /\ rcInserted' = rcInserted \cup {pkg}
    /\ UNCHANGED <<pipeVars, regVars, ixVars>>

----------------------------------------------------------------------------
(* Specifications *)

\* no run of the pipeline
PipeIdle ==
    /\ chain = <<>>
    /\ colls = <<>>
    /\ pep479 = "unknown"
    /\ aliases = {}
    /\ pc = "idle"
    /\ composed = 0
    /\ idx = 0
    /\ stageAt = 0
    /\ item = NoItem
    /\ scl = <<>>
    /\ present = <<>>
    /\ src = <<>>
    /\ sess = <<>>
    /\ failed = <<>>
    /\ ownedKeys = {}
    /\ pos = 0
    /\ mode = "idle"
    /\ val = NoPkg
    /\ acc = <<>>
    /\ structure = <<>>
    /\ report = [written |-> FALSE, content |-> <<>>]
    /\ failDocs = <<>>
    /\ error = "none"
    /\ trace = <<>>

Init ==
    /\ InitPipe
    /\ RegIdle
    /\ IxIdle
    /\ RcIdle

Next ==
    \/ Compose
    \/ StartConsume
    \/ PullItem
    \/ DiffItem
    \/ DownloadItem
    \/ BuildItem
    \/ ItemReceived
    \/ EmptySource
    \/ SourceOpen
    \/ SourceNext
    \/ DownloadPkg
    \/ BuildPkg
    \/ LayerStop
    \/ ConsumeValue
    \/ ConsumeStop
    \/ EndStage
    \/ WriteReport
    \/ Exit

\* a run of the pipeline
Spec == Init /\ [][Next]_vars

InitRepeat ==
    /\ chain \in RepeatChains
    /\ PipeStart
    /\ RegIdle
    /\ IxIdle
    /\ RcIdle

NextRepeat ==
    \/ Compose
    \/ StartConsume
    \/ PullItem
    \/ DiffItem
    \/ DownloadItem
    \/ BuildItem
    \/ ItemReceived
    \/ SourceOpen
    \/ SourceNext
    \/ DownloadPkg
    \/ BuildPkg
    \/ LayerStop
    \/ ConsumeValue
    \/ ConsumeStop
    \/ EndStage
    \/ WriteReport
    \/ Exit

\* a run of the pipeline whose command line holds diff twice
SpecRepeat == InitRepeat /\ [][NextRepeat]_vars

InitRegistry ==
    /\ PipeIdle
    /\ RegIdle
    /\ IxIdle
    /\ RcIdle

NextRegistry ==
    \/ \E name \in TypeNames, init \in Initializers : Register(name, init)
    \/ \E d \in Decorators, cls \in Classes : ApplyDecorator(d, cls)
    \/ \E d \in Descriptors : NewDescriptor(d)
    \/ MakeInstance

\* calls on one registry, in any order
SpecRegistry == InitRegistry /\ [][NextRegistry]_vars

InitIndex ==
    /\ PipeIdle
    /\ RegIdle
    /\ IxInit
    /\ RcIdle

NextIndex ==
    \/ \E s \in SvcIds : Insert(s)
    \/ \E key \in Keys : Find(key)

\* calls on one index, in any order
SpecIndex == InitIndex /\ [][NextIndex]_vars

InitReport ==
    /\ PipeIdle
    /\ RegIdle
    /\ IxIdle
    /\ RcIdle

NextReport == \E pkg \in RcPackages : InsertPackage(pkg)

\* calls on one report container
SpecReport == InitReport /\ [][NextReport]_vars

----------------------------------------------------------------------------
(* What the trace of the item at hand says *)

Events(op, k) == SelectSeq(trace, LAMBDA e : e.op = op /\ e.stage = k)

Pkgs(s) == [i \in DOMAIN s |-> s[i].pkg]

WithResult(s, r) == SelectSeq(s, LAMBDA e : e.res = r)

\* the item at hand has been consumed whole
ItemComplete == pc = "consume" /\ idx > 0

\* the build stages whose package sequence the consumer pulls
BuildLayers == {k \in StageIdx : chain[k] = "build" /\ k > LastDiff}

\* the packages stage k has taken from its input (N + 1: the consumer)
Taken(k) == IF k = N + 1 THEN acc ELSE Pkgs(Events(chain[k], k))

\* the packages stage k has yielded
Yielded(k) ==
    IF chain[k] = "diff" THEN Pkgs(Events("emit", k))
    ELSE LET done == WithResult(Events(chain[k], k), "ok")
         IN  [i \in DOMAIN done |->
                IF chain[k] = "download"
                THEN [done[i].pkg EXCEPT !.dir = done[i].coll]
                ELSE [done[i].pkg EXCEPT !.dir = NoDir]]

\* the package sequence fed to stage k, as far as it has been produced
Fed(k) == IF k = 1 THEN <<>> ELSE Yielded(k - 1)

\* what the repository answered for the tag of the given group
Answer(group) ==
    LET asked == SelectSeq(trace,
                    LAMBDA e : e.op = "latest_builds" /\ e.res = group)
    IN  IF asked = <<>> THEN <<>> ELSE asked[Len(asked)].ans

\* a latest build of the destination tag, of the collection, with the name of p
\* and comparing greater-than-or-equal
HasNewerOrEqual(p, c) ==
    \E i \in DOMAIN Answer("destination") :
        LET q == Answer("destination")[i]
        IN  /\ q.name = p.name
            /\ StartsWith(q.name, c)
            /\ ~PkgLess(q, p)

----------------------------------------------------------------------------
(* Claims about a run of the pipeline *)

\* C1. Build-failure isolation: when an item has been consumed, every build
\* stage has attempted each package fed to it, in input order and up to the
\* exhaustion of the source, whether or not an earlier build failed; it has
\* yielded exactly the packages whose build succeeded, in input order; and its
\* failure record for the collection holds exactly one entry per failed
\* package (and no entry for the collection when none failed).
C1_BuildFailureIsolation ==
    ItemComplete =>
        \A k \in BuildLayers :
            LET attempts == Events("build", k)
                fails == WithResult(attempts, "failure")
                F == {[package |-> fails[i].pkg, reason |-> "failed"] : i \in DOMAIN fails}
                c == item.collection
            IN  /\ LastDiff > 0 => src[LastDiff].state = "done"
                /\ \A j \in (LastDiff + 1)..k : Taken(j) = Fed(j)
                /\ Taken(k + 1) = Yielded(k)
                /\ Len(WithResult(attempts, "ok")) + Len(fails) = Len(attempts)
                /\ IF fails = <<>>
                   THEN c \notin DOMAIN failed[k]
                   ELSE /\ c \in DOMAIN failed[k]
                        /\ failed[k][c] = F
                        /\ Cardinality(F) = Len(fails)

\* an item consumed whose first build failed and whose second succeeded
C1_Witness ==
    /\ ItemComplete
    /\ \E k \in BuildLayers :
         /\ Len(Events("build", k)) = 2
         /\ Events("build", k)[1].res = "failure"
         /\ Events("build", k)[2].res = "ok"
         /\ Len(Taken(k + 1)) = 1

\* C2. Diff obsolescence rule: when an item has been consumed, the diff stage
\* has emitted exactly the latest builds of the source tag, in their order,
\* whose name starts with the collection name and for which the destination
\* tag has no latest build of the same name (under the same prefix filter)
\* comparing greater-than-or-equal.
C2_DiffObsolescence ==
    (ItemComplete /\ LastDiff > 0) =>
        Yielded(LastDiff) =
            SelectSeq(Answer("source"),
                      LAMBDA p : /\ StartsWith(p.name, item.collection)
                                 /\ ~HasNewerOrEqual(p, item.collection))

\* an item consumed: a source build with an equal destination build was
\* dropped, and another source build was emitted
C2_Witness ==
    /\ ItemComplete
    /\ LastDiff > 0
    /\ \E i \in DOMAIN Answer("source") :
         /\ StartsWith(Answer("source")[i].name, item.collection)
         /\ Answer("source")[i] \in Range(Answer("destination"))
         /\ Answer("source")[i] \notin Range(Yielded(LastDiff))
    /\ Yielded(LastDiff) # <<>>

\* C3 (as stated). Scoped builder session: in every final state of a run,
\* completed or aborted, no builder session is still held.
C3_NoSessionHeldAtExit ==
    pc = "exited" => \A k \in StageIdx : sess[k] # "held"

\* C4. Lazy evaluation: until the consumer has pulled its first item, that is
\* during run_chain's reduce over the processors and up to the first next() of
\* consume, no service operation has been performed.
C4_LazyEvaluation ==
    (pc = "main" \/ (pc = "consume" /\ idx = 0)) =>
        \A i \in DOMAIN trace : trace[i].op \notin ServiceOps

\* the three stages are composed, diff among them, and nothing has run
C4_Witness ==
    /\ pc = "main"
    /\ composed = N
    /\ N = 3
    /\ trace = <<>>

\* C10 (as stated). No failures, no failure report: a build stage whose input
\* stream is drained with no failure recorded ends normally, so that no run is
\* aborted by it, and no failure document is written without a failure.
C10_NoFailuresEndsNormally ==
    /\ error # "runtime"
    /\ \A i \in DOMAIN failDocs : DOMAIN failDocs[i].doc # {}

----------------------------------------------------------------------------
(* Claims about the registry *)

\* C5. Duplicate registration: a register(T, ...) on a registry in which T is
\* registered fails with DuplicateError and leaves the registry unchanged (T
\* still maps to the first constructor) and returns no decorator.
C5_DuplicateRegistration ==
    [][\A name \in TypeNames, init \in Initializers :
         (Register(name, init) /\ name \in DOMAIN regMap) =>
            /\ regOp'.result = "DuplicateError"
            /\ regMap' = regMap
            /\ regPending' = regPending]_vars

\* a registered tag has been registered again, and refused
C5_Witness ==
    /\ regOp.op = "register"
    /\ regOp.result = "DuplicateError"
    /\ regOp.name \in DOMAIN regMap

\* C6. Unknown type: make_instance of a descriptor whose type tag is not in
\* the registry fails with KeyError, invokes no constructor and leaves the
\* registry unchanged; for a registered tag it returns the result of the
\* registered constructor called with exactly the remaining parameters.
C6_UnknownType ==
    [][(MakeInstance /\ "type" \in DOMAIN regDesc) =>
         /\ regMap' = regMap
         /\ IF regDesc.type \in DOMAIN regMap
            THEN /\ regOp'.result = "ok"
                 /\ regOp'.inst.ctor = regMap[regDesc.type]
                 /\ regOp'.inst.kwargs =
                        [k \in DOMAIN regDesc \ {"type"} |-> regDesc[k]]
            ELSE /\ regOp'.result = "KeyError"
                 /\ regOp'.inst = NoInstance]_vars

\* a tag that is not registered was asked for, while another one is registered
C6_Witness ==
    /\ regOp.op = "make_instance"
    /\ regOp.result = "KeyError"
    /\ regOp.name \in TypeNames
    /\ regOp.name \notin DOMAIN regMap
    /\ regMap # <<>>

----------------------------------------------------------------------------
(* Claims about the capability index *)

\* the key set a service declares for this index: its attribute of the
\* index's name, if it has one
DeclaredKeys(s) ==
    IF ixServices[s].attr = IndexAttr THEN ixServices[s].keys ELSE {}

\* C7. Capability Index resolution: as long as every insertion has succeeded,
\* every key in the declared key set of every inserted service resolves to
\* exactly that service, and a key no inserted service declared does not
\* resolve.
C7_IndexResolution ==
    ~ixFailed =>
        /\ \A s \in ixInserted : \A key \in DeclaredKeys(s) :
              Owners(ixPairs, key) = {s} /\ Lookup(ixPairs, key) = s
        /\ \A key \in Keys :
              (\A s \in ixInserted : key \notin DeclaredKeys(s)) =>
                  Lookup(ixPairs, key) = 0

\* two services are inserted, a find has resolved to one of them, and a key
\* nobody declared does not resolve
C7_Witness ==
    /\ ~ixFailed
    /\ \E s, t \in ixInserted : s # t /\ DeclaredKeys(s) # {}
    /\ ixOp.op = "find"
    /\ ixOp.result = "ok"
    /\ ixOp.ret \in ixInserted
    /\ \E key \in Keys : Lookup(ixPairs, key) = 0

\* C8. Key uniqueness: each routing key maps to at most one service in every
\* reachable state, and inserting a service that declares a key claimed by a
\* different service raises DuplicateKeyError and takes no key from its owner.
C8_KeyUniqueness ==
    /\ [](\A key \in Keys : Cardinality(Owners(ixPairs, key)) <= 1)
    /\ [][\A s \in SvcIds :
            (/\ Insert(s)
             /\ \E key \in DeclaredKeys(s) : Owners(ixPairs, key) \ {s} # {}) =>
                /\ ixOp'.result = "DuplicateKeyError"
                /\ \A key \in Keys : Owners(ixPairs, key) \subseteq Owners(ixPairs', key)]_vars

\* an insert was refused for a key another service holds
C8_Witness ==
    /\ ixOp.op = "insert"
    /\ ixOp.result = "DuplicateKeyError"
    /\ \E key \in DeclaredKeys(ixOp.arg) : Owners(ixPairs, key) \ {ixOp.arg} # {}

\* C9. No-op insertion: inserting a service that does not have the key-set
\* attribute of the index raises no error, returns the same service and leaves
\* the index unchanged.
C9_NoOpInsertion ==
    [][\A s \in SvcIds :
         (Insert(s) /\ ixServices[s].attr # IndexAttr) =>
            /\ ixOp'.result = "ok"
            /\ ixOp'.ret = s
            /\ ixPairs' = ixPairs
            /\ ixFailed' = ixFailed]_vars

\* a service with keys under another attribute was inserted: none resolves
C9_Witness ==
    /\ ixOp.op = "insert"
    /\ ixOp.result = "ok"
    /\ ixOp.arg \in SvcIds
    /\ ixServices[ixOp.arg].attr # IndexAttr
    /\ ixServices[ixOp.arg].keys # {}
    /\ \A key \in ixServices[ixOp.arg].keys : Lookup(ixPairs, key) = 0

----------------------------------------------------------------------------
(* Claims about the failure report and fatal errors *)

\* the build stages of the chain
BuildStages == {k \in StageIdx : chain[k] = "build"}

\* stage k has run its code after the loop, and the run was not aborted
Ended(k) == pc \in {"end", "done", "exited"} /\ error = "none" /\ stageAt > k

\* the failure documents stage k has written
DocsOf(k) == SelectSeq(failDocs, LAMBDA d : d.stage = k)

\* the entry of a failure in a failure document
Entry(f) == [nevra |-> <<f.package.name, f.package.ver>>, reason |-> f.reason]

\* C11 (as stated). Failure report content: when at least one build failed,
\* exactly one failure document is written.
C11_FailureAlwaysReported ==
    (pc = "exited" /\ \E k \in BuildStages : DOMAIN failed[k] # {}) =>
        Len(failDocs) = 1

\* C11 (amended). In a run whose stream is drained without a fatal error, a
\* build stage with at least one failure has written exactly one failure
\* document; a document is written only when every collection has been
\* consumed; it has an entry for exactly the collections with a failure, each
\* with one (NEVRA, reason) entry per failed package, in package order.
C11_FailureReportContent ==
    /\ failDocs # <<>> => pc \in {"end", "done", "exited"} /\ idx = Len(colls)
    /\ \A k \in BuildStages : Len(DocsOf(k)) <= 1
    /\ \A k \in BuildStages :
         (Ended(k) /\ DOMAIN failed[k] # {}) =>
            /\ Len(DocsOf(k)) = 1
            /\ LET doc == DocsOf(k)[1].doc
               IN  /\ DOMAIN doc = {c \in DOMAIN failed[k] : failed[k][c] # {}}
                   /\ DOMAIN doc = DOMAIN failed[k]
                   /\ \A c \in DOMAIN doc :
                        /\ Len(doc[c]) = Cardinality(failed[k][c])
                        /\ Range(doc[c]) = {Entry(f) : f \in failed[k][c]}
                        /\ \A i, j \in DOMAIN doc[c] :
                             i < j =>
                               \E f, g \in failed[k][c] :
                                  /\ Entry(f) = doc[c][i]
                                  /\ Entry(g) = doc[c][j]
                                  /\ PkgLess(f.package, g.package)

\* a document is written in which two failures of the last collection stand
\* in package order, the reverse of the order they occurred in
C11_Witness ==
    /\ Len(failDocs) = 1
    /\ \E k \in BuildStages :
         LET fails == WithResult(Events("build", k), "failure")
             doc == failDocs[1].doc
         IN  /\ Len(fails) = 2
             /\ PkgLess(fails[2].pkg, fails[1].pkg)
             /\ fails[1].coll \in DOMAIN doc
             /\ Len(doc[fails[1].coll]) = 2
             /\ doc[fails[1].coll][1].nevra = <<fails[2].pkg.name, fails[2].pkg.ver>>

\* C12. Download failures are fatal: once repo.download has raised, the run is
\* aborted with that error; no stage has recorded it as a build failure, no
\* package is downloaded or built after it (only sessions are released), and
\* neither the report nor a failure document is written.
C12_DownloadFailureFatal ==
    \A i \in DOMAIN trace :
        (trace[i].op = "download" /\ trace[i].res = "raise") =>
            /\ error = "download"
            /\ pc \in {"aborted", "exited"}
            /\ ~report.written
            /\ failDocs = <<>>
            /\ \A j \in (i + 1)..Len(trace) : trace[j].op = "release"
            /\ \A k \in BuildStages :
                 trace[i].coll \in DOMAIN failed[k] =>
                    \A f \in failed[k][trace[i].coll] :
                       \E e \in Range(WithResult(Events("build", k), "failure")) :
                          e.pkg = f.package

\* the download of a second package raised under a build stage that had built
\* the first: the run has ended, the session is released
C12_Witness ==
    /\ error = "download"
    /\ pc = "exited"
    /\ \E i, j \in DOMAIN trace :
         /\ i < j
         /\ trace[i].op = "build"
         /\ trace[i].res = "ok"
         /\ trace[j].op = "download"
         /\ trace[j].res = "raise"
         /\ trace[j].stage < trace[i].stage
    /\ \A k \in StageIdx : sess[k] # "held"

----------------------------------------------------------------------------
(* Claims about the stream of items *)

\* an item of the stream is on its way through the stages or with the consumer
ItemInFlight == pc \in {"item", "pkgs"} \/ ItemComplete

\* C13. Context preservation: the i-th item every stage receives, and the i-th
\* item the consumer receives, carry the EL version of the run and the i-th
\* collection name of the initial sequence; only the package sequence differs
\* (stage k receives the product of stage k - 1); and the collections of the
\* report of a completed run are those of the initial sequence.
C13_ContextPreservation ==
    /\ ItemInFlight =>
         /\ idx \in DOMAIN colls
         /\ item.el = DefaultEL
         /\ item.collection = colls[idx]
         /\ item.iter = stageAt - 1
         /\ \A k \in 1..(stageAt - 1) :
              scl[k] = [el |-> DefaultEL, collection |-> colls[idx], iter |-> k - 1]
    /\ DOMAIN structure \subseteq {colls[i] : i \in 1..idx}
    /\ (ItemComplete \/ pc \in {"end", "done"}) =>
         DOMAIN structure = {colls[i] : i \in 1..idx}
    /\ report.written => DOMAIN report.content = Range(colls)

\* the second item of a run has passed three stages and reached the consumer
C13_Witness ==
    /\ pc = "pkgs"
    /\ N = 3
    /\ idx = 2
    /\ stageAt = N + 1
    /\ item.collection = colls[2]

\* the one enumeration of a set of packages in package order
InPackageOrder(S) ==
    CHOOSE s \in [1..Cardinality(S) -> S] :
        /\ Range(s) = S
        /\ \A i, j \in DOMAIN s : i < j => PkgLess(s[i], s[j])

\* C14. Report determinism: what the report holds for a collection is a
\* function of the set of packages that reached the consumer, namely that set
\* in package order, whatever the order they arrived in; and the report
\* written is the structure so built.
C14_ReportDeterminism ==
    /\ ItemComplete =>
         /\ item.collection \in DOMAIN structure
         /\ structure[item.collection] = InPackageOrder(Range(acc))
    /\ \A c \in DOMAIN structure :
         \A i, j \in DOMAIN structure[c] :
            i < j => PkgLess(structure[c][i], structure[c][j])
    /\ report.written => report.content = structure

\* two packages reached the consumer against package order; the report has
\* them in package order
C14_Witness ==
    /\ report.written
    /\ Len(acc) = 2
    /\ PkgLess(acc[2], acc[1])
    /\ item.collection \in DOMAIN report.content
    /\ report.content[item.collection] = <<acc[2], acc[1]>>

----------------------------------------------------------------------------
(* Claims about the report container *)

\* C15. Report placement: every package inserted into an empty container is
\* found under the outer key of its collection (the ungrouped marker when it
\* has none) and the inner key of the distribution tag of its metadata, and
\* under no other pair of keys; and the container holds nothing else.
C15_ReportPlacement ==
    /\ \A pkg \in rcInserted :
         \A outer \in (Scls \ {NoScl}) \cup {Ungrouped}, inner \in Dists :
            <<outer, inner, pkg>> \in rcResult <=>
               /\ outer = (IF pkg.scl = NoScl THEN Ungrouped ELSE pkg.scl)
               /\ inner = pkg.release[2]
    /\ \A e \in rcResult :
         /\ e[3] \in rcInserted
         /\ e[1] \in (Scls \ {NoScl}) \cup {Ungrouped}
         /\ e[2] \in Dists

\* packages with and without a collection, of both distributions, are in
C15_Witness ==
    /\ \E p, q \in rcInserted :
         /\ p.scl = NoScl
         /\ q.scl # NoScl
         /\ p.release[2] # q.release[2]
         /\ <<Ungrouped, p.release[2], p>> \in rcResult
         /\ <<q.scl, q.release[2], q>> \in rcResult
    /\ Cardinality(rcInserted) >= 3

----------------------------------------------------------------------------
(* Claims about the order of errors and service operations *)

\* C16 (as stated). Configuration errors precede network activity: a run
\* aborted for a missing alias template has performed no service operation.
C16_AliasErrorBeforeServiceOps ==
    error = "alias" =>
        /\ idx = 1
        /\ \A i \in DOMAIN trace : trace[i].op \notin ServiceOps

----------------------------------------------------------------------------
(* More claims about the registry *)

\* C17. Invalid initializer: applying the decorator of register(name,
\* initializer) to a class without that attribute raises AttributeError and
\* leaves the registry as it was; a name that is not in the registry, for this
\* or any other reason, can be registered.
C17_InvalidInitializer ==
    [][/\ \A d \in Decorators, cls \in Classes :
            (/\ ApplyDecorator(d, cls)
             /\ d.init # ""
             /\ d.init \notin ClassAttrs(cls)) =>
                /\ regOp'.result = "AttributeError"
                /\ regMap' = regMap
       /\ \A name \in TypeNames, init \in Initializers :
            (Register(name, init) /\ name \notin DOMAIN regMap) =>
                /\ regOp'.result = "ok"
                /\ [name |-> name, init |-> init] \in regPending']_vars

\* the decorator of an initializer no class has was applied and has failed,
\* and its name is not in the registry
C17_Witness ==
    /\ regOp.op = "decorator"
    /\ regOp.result = "AttributeError"
    /\ regOp.name \notin DOMAIN regMap
    /\ [name |-> regOp.name, init |-> "none"] \in regPending

\* C18 (as stated). Registry entries are never overwritten: whatever the
\* interleaving of register calls and applications of their decorators, a name
\* in the registry keeps the initializer it was first given.
C18_NeverOverwritten ==
    [][\A name \in DOMAIN regMap :
         /\ name \in DOMAIN regMap'
         /\ regMap'[name] = regMap[name]]_vars

----------------------------------------------------------------------------
(* Claims about the order of the work *)

\* C19. One collection at a time: every step taken since the consumer pulled
\* an item is a step for the collection of that item; while it is taken, every
\* collection before it is stored in the consumer's structure; and when the
\* consumer turns to the next item, the package sequence of the item at hand
\* is drained through every stage: the source is exhausted, every stage has
\* taken all its input has produced, and no session is held.
C19_OneCollectionAtATime ==
    /\ \A i \in DOMAIN trace :
         /\ idx \in DOMAIN colls
         /\ trace[i].coll = colls[idx]
    /\ pc \in {"item", "pkgs"} =>
         \A i \in 1..(idx - 1) : colls[i] \in DOMAIN structure
    /\ ItemComplete =>
         /\ colls[idx] \in DOMAIN structure
         /\ LastDiff > 0 => src[LastDiff].state = "done"
         /\ \A k \in StageIdx : sess[k] # "held"
         /\ \A j \in (LastDiff + 1)..(N + 1) : Taken(j) = Fed(j)

\* the second collection is being built while the first, with a package, is
\* stored
C19_Witness ==
    /\ pc = "pkgs"
    /\ idx = 2
    /\ colls[1] \in DOMAIN structure
    /\ structure[colls[1]] # <<>>
    /\ \E i \in DOMAIN trace : trace[i].op = "build" /\ trace[i].coll = colls[2]

\* the stages that call a service for each package they are fed
PackageStages == {k \in StageIdx : chain[k] \in {"download", "build"}}

\* C20. No retries and exactly-once processing: when an item has been
\* consumed, each download and build stage whose sequence is pulled has called
\* its service exactly once for each package of its input, in input order, and
\* no package twice, also after a failure; each download went to the
\* directory of the item's collection, made once; a stage whose sequence is
\* not pulled (it stands before the last diff) has called nothing.
C20_ExactlyOnce ==
    ItemComplete =>
        \A k \in PackageStages :
            LET calls == Events(chain[k], k)
            IN  IF k < LastDiff
                THEN calls = <<>>
                ELSE /\ Pkgs(calls) = Fed(k)
                     /\ \A i, j \in DOMAIN calls : i # j => calls[i].pkg # calls[j].pkg
                     /\ \A i \in DOMAIN calls : calls[i].coll = colls[idx]
                     /\ chain[k] = "download" =>
                          /\ Len(Events("mkdir", k)) = 1
                          /\ Events("mkdir", k)[1].coll = colls[idx]
                          /\ \A i \in DOMAIN Yielded(k) :
                               Yielded(k)[i].dir = colls[idx]

\* two packages were downloaded and submitted to build, the first build
\* failed, and the item is consumed
C20_Witness ==
    /\ ItemComplete
    /\ \E d, b \in PackageStages :
         /\ LastDiff < d
         /\ d < b
         /\ chain[d] = "download"
         /\ chain[b] = "build"
         /\ Len(Events("download", d)) = 2
         /\ Len(Events("build", b)) = 2
         /\ Events("build", b)[1].res = "failure"

----------------------------------------------------------------------------
(* Claims about a chain that holds diff twice *)

\* what the repository answered diff stage k for the tag of the given group
DiffAnswer(k, group) ==
    LET asked == SelectSeq(trace, LAMBDA e : /\ e.op = "latest_builds"
                                             /\ e.stage = k
                                             /\ e.res = group)
    IN  IF asked = <<>> THEN <<>> ELSE asked[Len(asked)].ans

\* the steps a stage takes only when its package sequence is pulled
PullOps == {"emit", "download", "build", "acquire", "release"}

IsPrefix(s, t) == Len(s) <= Len(t) /\ SubSeq(t, 1, Len(s)) = s

\* C21. Generator stage: for every diff stage of the chain, no stage before it
\* has had its package sequence pulled for the item at hand (no package step,
\* no source query, no session of those stages), and what the diff stage has
\* yielded is the beginning of, and for a consumed item is, the list computed
\* from its collection name and the two answers it got alone: the source
\* builds under the collection prefix that have no destination build of the
\* same name comparing greater-than-or-equal.
C21_GeneratorStage ==
    \A k \in StageIdx :
        chain[k] = "diff" =>
            LET c == scl[k].collection
                dst == DiffAnswer(k, "destination")
                expected ==
                    SelectSeq(DiffAnswer(k, "source"),
                        LAMBDA p :
                            /\ StartsWith(p.name, c)
                            /\ ~\E i \in DOMAIN dst :
                                   /\ dst[i].name = p.name
                                   /\ StartsWith(dst[i].name, c)
                                   /\ ~PkgLess(dst[i], p))
            IN  /\ \A i \in DOMAIN trace :
                      trace[i].stage < k =>
                          /\ trace[i].op \notin PullOps
                          /\ ~(trace[i].op = "latest_builds" /\ trace[i].res = "source")
                /\ \A j \in 1..(k - 1) :
                      /\ sess[j] = "none"
                      /\ src[j].state \in {"none", "new"}
                /\ IsPrefix(Pkgs(Events("emit", k)), expected)
                /\ (ItemComplete /\ \A j \in (k + 1)..N : chain[j] # "diff") =>
                      Pkgs(Events("emit", k)) = expected

\* diff, build, diff: the item is consumed, the second diff was fed the built
\* sequence of the first, got another destination answer than the first, and
\* yielded one of the two source builds
C21_Witness ==
    /\ ItemComplete
    /\ chain = <<"diff", "build", "diff">>
    /\ DiffAnswer(1, "destination") # DiffAnswer(3, "destination")
    /\ Len(DiffAnswer(3, "source")) = 2
    /\ Len(Pkgs(Events("emit", 3))) = 1

----------------------------------------------------------------------------
(* Claims about the closure of the build stage *)

\* the steps of build stage k made with the target and builder of its frame
BuilderSteps(k) ==
    SelectSeq(trace, LAMBDA e : e.stage = k /\ e.op \in {"acquire", "build", "release"})

\* the failures the trace of the item at hand shows for build stage k
FailuresAtHand(k) ==
    {Failure(e.pkg) : e \in Range(WithResult(Events("build", k), "failure"))}

\* C22. Failure attribution: every step of a build stage for the item at hand
\* (session and builds) is made for that item's collection, whose target has
\* been resolved; the failures recorded under the collection of the item at
\* hand are exactly the failed builds of that item, each of a package the
\* source yielded for that item; and every failure on record is stored under a
\* collection already pulled and is of a package of that collection.
C22_FailureAttribution ==
    \A k \in BuildStages :
        /\ \A c \in DOMAIN failed[k] :
              /\ \E j \in 1..idx : colls[j] = c
              /\ \A f \in failed[k][c] : StartsWith(f.package.name, c)
        /\ idx > 0 =>
              /\ \A e \in Range(BuilderSteps(k)) :
                    /\ e.coll = colls[idx]
                    /\ Key("target", "destination", colls[idx]) \in ownedKeys
              /\ IF FailuresAtHand(k) = {}
                 THEN colls[idx] \notin DOMAIN failed[k]
                 ELSE /\ colls[idx] \in DOMAIN failed[k]
                      /\ failed[k][colls[idx]] = FailuresAtHand(k)
              /\ \A f \in FailuresAtHand(k) :
                    \E e \in Range(trace) :
                        /\ e.op = "emit"
                        /\ e.coll = colls[idx]
                        /\ e.pkg.name = f.package.name
                        /\ e.pkg.ver = f.package.ver

\* the second item is being pulled: a build of the first collection failed
\* before, and now a build of the second collection has failed
C22_Witness ==
    /\ pc = "pkgs"
    /\ idx = 2
    /\ \E k \in BuildStages :
         /\ colls[1] \in DOMAIN failed[k]
         /\ colls[2] \in DOMAIN failed[k]
         /\ failed[k][colls[1]] # failed[k][colls[2]]
         /\ FailuresAtHand(k) # {}

\* C23. Builds only inside a session: every build of the item at hand was made
\* after its stage entered the session for that item and before it left it,
\* and a build stage about to call build holds its session; no session is
\* entered before the consumer's first pull on the item's package sequence,
\* and only by a build stage whose sequence that pull reaches; every session
\* held is the session of the collection at hand, and none is held when the
\* consumer asks for the next item.
C23_BuildsInsideSession ==
    /\ \A k \in BuildStages :
          /\ \A i \in DOMAIN trace :
                (trace[i].op = "build" /\ trace[i].stage = k) =>
                    /\ \E j \in 1..(i - 1) :
                          /\ trace[j].op = "acquire"
                          /\ trace[j].stage = k
                          /\ trace[j].coll = trace[i].coll
                    /\ \A j \in 1..(i - 1) :
                          ~(trace[j].op = "release" /\ trace[j].stage = k)
          /\ (pc = "pkgs" /\ mode = "up" /\ pos = k) => sess[k] = "held"
          /\ sess[k] # "none" =>
                /\ pc \notin {"main", "item"}
                /\ k > LastDiff
          /\ pc \in {"main", "item"} =>
                \A i \in DOMAIN trace : trace[i].op # "acquire"
          /\ sess[k] = "held" =>
                /\ idx > 0
                /\ scl[k].collection = colls[idx]
                /\ \A i \in DOMAIN trace :
                      trace[i].op = "acquire" => trace[i].coll = colls[idx]
    /\ pc = "consume" => \A k \in StageIdx : sess[k] # "held"

\* the session of the first collection was entered, used and left; the stage
\* now holds the session of the second collection and has built twice in it
C23_Witness ==
    /\ pc = "pkgs"
    /\ idx = 2
    /\ colls[1] \in DOMAIN structure
    /\ structure[colls[1]] # <<>>
    /\ \E k \in BuildStages :
         /\ sess[k] = "held"
         /\ Len(Events("build", k)) = 2
         /\ Events("build", k)[2].coll = colls[2]

----------------------------------------------------------------------------
(* Claims about the descriptor make_instance is given *)

\* C24. Descriptor consumption: a make_instance on a descriptor that holds a
\* type tag leaves the descriptor without the tag and with its other
\* parameters as they were, whether the tag is registered (the call succeeds)
\* or not (KeyError for the tag); after any make_instance the descriptor holds
\* no type tag, and a make_instance on a descriptor without one, a second call
\* on the same descriptor among them, fails with the KeyError of the missing
\* 'type' key and leaves the descriptor as it is.
C24_DescriptorConsumption ==
    /\ [](regOp.op = "make_instance" => "type" \notin DOMAIN regDesc)
    /\ [][MakeInstance =>
            IF "type" \in DOMAIN regDesc
            THEN /\ DOMAIN regDesc' = DOMAIN regDesc \ {"type"}
                 /\ \A k \in DOMAIN regDesc' : regDesc'[k] = regDesc[k]
                 /\ regOp'.name = regDesc.type
                 /\ regOp'.result =
                        (IF regDesc.type \in DOMAIN regMap THEN "ok" ELSE "KeyError")
            ELSE /\ regDesc' = regDesc
                 /\ regOp'.result = "KeyError"
                 /\ regOp'.name = ""]_vars

\* make_instance has failed for a tag that is not registered, and the
\* descriptor is left with its name parameter only
C24_Witness ==
    /\ regOp.op = "make_instance"
    /\ regOp.result = "KeyError"
    /\ regOp.name \in TypeNames
    /\ regDesc = [name |-> "configured"]

====
